---- MODULE Spec2Model ----
(***************************************************************************)
(* Model of schedule-ebs-snapshot-backups.py: lambda_handler walks the     *)
(* running instances tagged MakeSnapshot, snapshots every attached volume, *)
(* tags the new snapshot AutoDelete=true and deletes the expired, tagged   *)
(* snapshots of the volume.                                                *)
(*                                                                         *)
(* Strings are sequences of one-character strings, so that lower(),        *)
(* int(), isoformat(), rpartition() and format() are computed as Python    *)
(* computes them.  Time is counted in ticks, TicksPerDay ticks to a day;   *)
(* the sub-second part of the clock is kept beside it.                     *)
(***************************************************************************)
EXTENDS Integers, Sequences, FiniteSets, TLC

\* ------------------------------------------------------------------ bounds
TicksPerDay == 2     \* resolution of the clock
MaxNow == 3          \* the clock stops ticking here
MaxReruns == 2       \* invocations in succession under RerunSpec
MaxPrior == 2        \* snapshots that exist before the first invocation

\* ------------------------------------------------------- module constants
MinRetentionCountTwo == 1 + 1
MIN_RETENTION_COUNT == 1
RETENTION_DAYS_DEFAULT == 2
SNAPSHOT_TAG == "MakeSnapshot"
RETENTION_TAG == "Retention"
DELETE_TAG == "AutoDelete"
NAME_TAG == "Name"

\* ---------------------------------------------------------------- strings
UpperCase == <<"A","B","C","D","E","F","G","H","I","J","K","L","M",
               "N","O","P","Q","R","S","T","U","V","W","X","Y","Z">>
LowerCase == <<"a","b","c","d","e","f","g","h","i","j","k","l","m",
               "n","o","p","q","r","s","t","u","v","w","x","y","z">>
Digits == <<"0","1","2","3","4","5","6","7","8","9">>

\* str.lower(), one character
LowerChar(c) ==
    IF \E i \in 1..26 : UpperCase[i] = c
    THEN LowerCase[CHOOSE i \in 1..26 : UpperCase[i] = c]
    ELSE c

\* str.lower()
Lower(s) == [i \in 1..Len(s) |-> LowerChar(s[i])]

\* str(None) and str(True)
StrNone == <<"N","o","n","e">>
StrTrue == <<"T","r","u","e">>

IsDigit(c) == \E i \in 1..10 : Digits[i] = c
DigitValue(c) == (CHOOSE i \in 1..10 : Digits[i] = c) - 1

RECURSIVE DigitsValue(_)
DigitsValue(s) ==
    IF s = <<>> THEN 0
    ELSE 10 * DigitsValue(SubSeq(s, 1, Len(s) - 1)) + DigitValue(s[Len(s)])

\* int(s) of a string: an optional sign and decimal digits, else ValueError
ParseInt(s) ==
    LET body == IF s # <<>> /\ s[1] \in {"-", "+"} THEN Tail(s) ELSE s
    IN IF body # <<>> /\ \A i \in 1..Len(body) : IsDigit(body[i])
       THEN [ok |-> TRUE,
             val |-> IF s[1] = "-" THEN 0 - DigitsValue(body) ELSE DigitsValue(body)]
       ELSE [ok |-> FALSE, val |-> 0]

\* the decimal digits of n, at least `width` of them (zero padded)
RECURSIVE Pad(_, _)
Pad(n, width) ==
    IF width <= 1 /\ n < 10 THEN <<Digits[n + 1]>>
    ELSE Pad(n \div 10, width - 1) \o <<Digits[(n % 10) + 1]>>

\* str.rpartition(sep)[0]: what precedes the last sep, '' when there is none
RPartitionHead(s, sep) ==
    IF \E i \in 1..Len(s) : s[i] = sep
    THEN LET last == CHOOSE i \in 1..Len(s) :
                        s[i] = sep /\ \A j \in (i + 1)..Len(s) : s[j] # sep
         IN SubSeq(s, 1, last - 1)
    ELSE <<>>

\* datetime.isoformat(): YYYY-MM-DDTHH:MM:SS, then .ffffff unless microsecond = 0
IsoFormat(tick, usec) ==
    LET day == 1 + (tick \div TicksPerDay)
        hour == ((tick % TicksPerDay) * 24) \div TicksPerDay
        whole == <<"2","0","1","6","-","0","1","-">> \o Pad(day, 2) \o <<"T">>
                 \o Pad(hour, 2) \o <<":","0","0",":","0","0">>
    IN IF usec = 0 THEN whole ELSE whole \o <<".">> \o Pad(usec, 6)

\* datetime.datetime.utcnow().isoformat().rpartition('.')[0]
SnapshotDate(tick, usec) == RPartitionHead(IsoFormat(tick, usec), ".")

\* '{}.{}.{}'.format(instance_name, volume.id, snapshot_date)
Description(instance_name, volume_id, snapshot_date) ==
    instance_name \o <<".">> \o volume_id \o <<".">> \o snapshot_date

\* ------------------------------------------------------------------- tags
Tag(k, v) == [Key |-> k, Value |-> v]

\* tags_dict: the last value of a key wins; None and [] give {}
tags_dict(tags) ==
    IF tags # <<>>
    THEN [k \in {tags[i].Key : i \in 1..Len(tags)} |->
            tags[CHOOSE i \in 1..Len(tags) :
                    tags[i].Key = k /\ \A j \in (i + 1)..Len(tags) : tags[j].Key # k].Value]
    ELSE <<>>

\* dict.get(key, default)
Get(d, k, default) == IF k \in DOMAIN d THEN d[k] ELSE default

OptedOutFalseOnly(make_snapshot) == make_snapshot = <<"f","a","l","s","e">>

\* str(tags.get(SNAPSHOT_TAG[, default])).lower() in ('false', '0', 'none')
OptedOut(make_snapshot) ==
    make_snapshot \in {<<"f","a","l","s","e">>, <<"0">>, <<"n","o","n","e">>}

\* ------------------------------------------------------------ the account
I1 == <<"i","-","1">>
I2 == <<"i","-","2">>
V1 == <<"v","-","1">>
V2 == <<"v","-","2">>
V3 == <<"v","-","3">>
Instances == <<I1, I2>>
Volumes == {V1, V2, V3}

\* instance.volumes.all(): the volumes attached to an instance
AttachedVolumes(i) == IF i = I1 THEN <<V1, V2>> ELSE <<V3>>

Web == <<"w","e","b",".","1">>

Instance(state, tags) == [state |-> state, tags |-> tags]
PlainInstance == Instance("running", <<Tag(SNAPSHOT_TAG, <<"t","r","u","e">>)>>)
NamedInstance ==
    Instance("running", <<Tag(NAME_TAG, Web), Tag(SNAPSHOT_TAG, <<"Y","e","s">>),
                          Tag(RETENTION_TAG, <<"1">>)>>)

\* what the first instance may be
InstanceChoices ==
    { PlainInstance,
      NamedInstance,
      Instance("running", <<Tag(SNAPSHOT_TAG, <<"1">>), Tag(RETENTION_TAG, <<"0">>)>>),
      Instance("running", <<Tag(SNAPSHOT_TAG, <<"t","r","u","e">>),
                            Tag(RETENTION_TAG, <<"2","d">>)>>),
      Instance("running", <<Tag(SNAPSHOT_TAG, <<"F","a","l","s","e">>)>>),
      Instance("running", <<Tag(SNAPSHOT_TAG, <<"0">>)>>),
      Instance("running", <<Tag(SNAPSHOT_TAG, <<"N","O","N","E">>)>>),
      Instance("running", <<Tag(NAME_TAG, Web)>>),
      Instance("stopped", <<Tag(SNAPSHOT_TAG, <<"t","r","u","e">>)>>) }

\* an instance that is opted out
OptedOutInstance ==
    Instance("running", <<Tag(SNAPSHOT_TAG, <<"n","o","n","e">>), Tag(NAME_TAG, Web)>>)

\* what the tags of the first volume may be
VolumeTagChoices ==
    { <<>>,
      <<Tag(RETENTION_TAG, <<"3">>)>>,
      <<Tag(SNAPSHOT_TAG, <<"t","r","u","e">>), Tag(RETENTION_TAG, <<"0">>)>>,
      <<Tag(RETENTION_TAG, <<>>)>>,
      <<Tag(SNAPSHOT_TAG, <<"F","A","L","S","E">>)>> }

\* a volume that is opted out
OptedOutVolume == <<Tag(SNAPSHOT_TAG, <<"N","o","n","e">>)>>

Old == <<"o","l","d">>
Snapshot(id, v, start, tags, descr) ==
    [id |-> id, volume_id |-> v, start_time |-> start, tags |-> tags,
     description |-> descr]

\* the snapshots of the first volume that may exist before the first invocation
PriorPool ==
    << Snapshot(1, V1, 0 - (2 * TicksPerDay) - 1,
                <<Tag(DELETE_TAG, <<"t","r","u","e">>)>>, Old),
       Snapshot(2, V1, 0 - (2 * TicksPerDay),
                <<Tag(DELETE_TAG, <<"T","R","U","E">>)>>, Old),
       Snapshot(3, V1, 0 - TicksPerDay,
                <<Tag(DELETE_TAG, <<"T","r","u","e">>)>>, Old),
       Snapshot(4, V1, 0 - (4 * TicksPerDay),
                <<Tag(DELETE_TAG, <<"f","a","l","s","e">>)>>, Old),
       Snapshot(5, V1, 0 - (4 * TicksPerDay),
                <<Tag(NAME_TAG, Old)>>, Old) >>

PriorChoices ==
    { {PriorPool[k] : k \in K} :
        K \in {K \in SUBSET (1..Len(PriorPool)) : Cardinality(K) <= MaxPrior} }

\* the sub-second part of the clock, in microseconds
Microseconds == {0, 250000}

Procs == {1, 2}

VARIABLES
    instance_state, instance_tags, volume_tags,   \* the account's resources
    ec2_snapshots, next_id,                       \* its snapshots
    now, microsecond,                             \* the clock
    pending,                                      \* invocations the scheduler still triggers
    pc,                                           \* where each invocation stands
    instances, instance_name, retention_days,     \* lambda_handler's locals
    volumes, volume, new_snapshot,
    volume_retention_days, snapshots, cursor, ret,
    runs, run_no, run_start, at_start,            \* history
    made, examined, missing, faulted

account == <<instance_state, instance_tags, volume_tags>>
clock == <<now, microsecond>>
locals == <<instances, instance_name, retention_days, volumes, volume,
            new_snapshot, volume_retention_days, snapshots, cursor, ret>>
history == <<runs, run_no, run_start, at_start, made, examined, missing, faulted>>
vars == <<account, ec2_snapshots, next_id, clock, pending, pc, locals, history>>

NoProc(x) == [p \in Procs |-> x]

\* the account before the first invocation: the two instances, the tags of
\* the first two volumes, the snapshots of the first volume and the time
InitAccount(first, second, tags1, tags2, prior, time) ==
    /\ instance_state = (I1 :> first.state) @@ (I2 :> second.state)
    /\ instance_tags = (I1 :> first.tags) @@ (I2 :> second.tags)
    /\ volume_tags = (V1 :> tags1) @@ (V2 :> tags2) @@ (V3 :> <<>>)
    /\ ec2_snapshots = prior
    /\ next_id = Len(PriorPool) + 1
    /\ now = time
    /\ microsecond = 250000

InitHandler ==
    /\ pc = NoProc("idle")
    /\ instances = NoProc(<<>>)
    /\ instance_name = NoProc(<<>>)
    /\ retention_days = NoProc(0)
    /\ volumes = NoProc(<<>>)
    /\ volume = NoProc(<<>>)
    /\ new_snapshot = NoProc(0)
    /\ volume_retention_days = NoProc(0)
    /\ snapshots = NoProc(<<>>)
    /\ cursor = NoProc(1)
    /\ ret = NoProc("None")
    /\ runs = 0
    /\ run_no = NoProc(0)
    /\ run_start = NoProc(0)
    /\ at_start = NoProc({})
    /\ made = {}
    /\ examined = {}
    /\ missing = {}
    /\ faulted = {}

\* one invocation by the scheduler, of the first instance
Init ==
    /\ \E first \in InstanceChoices, tags1 \in VolumeTagChoices, prior \in PriorChoices :
          InitAccount(first, OptedOutInstance, tags1, <<>>, prior, 0)
    /\ InitHandler
    /\ pending = (1 :> 1) @@ (2 :> 0)

\* MaxReruns invocations in succession, of both instances
RerunInit ==
    /\ \E first \in {PlainInstance, NamedInstance},
          prior \in {c \in PriorChoices : Cardinality(c) <= 1} :
          InitAccount(first, PlainInstance, <<>>, OptedOutVolume, prior, MaxNow - 1)
    /\ InitHandler
    /\ pending = (1 :> MaxReruns) @@ (2 :> 0)

\* two invocations that may overlap, of one volume with an expired snapshot
OverlapInit ==
    /\ \E prior \in {c \in PriorChoices : PriorPool[1] \in c} :
          InitAccount(PlainInstance, OptedOutInstance, <<>>, OptedOutVolume, prior,
                      MaxNow - 1)
    /\ InitHandler
    /\ pending = (1 :> 1) @@ (2 :> 1)

\* ------------------------------------------------------------ the handler
\* list(snapshots): the snapshots of a set, in the order of their ids
RECURSIVE ListOf(_)
ListOf(S) ==
    IF S = {} THEN <<>>
    ELSE LET first == CHOOSE x \in S : \A y \in S : x.id <= y.id
         IN <<first>> \o ListOf(S \ {first})

\* ec2.instances.filter(tag-key = MakeSnapshot, instance-state-name = running)
FilterInstances ==
    SelectSeq(Instances,
              LAMBDA i : /\ SNAPSHOT_TAG \in DOMAIN tags_dict(instance_tags[i])
                         /\ instance_state[i] = "running")

\* volume.snapshots.filter(tag-key = AutoDelete), as a list
FilterSnapshots(v) ==
    ListOf({s \in ec2_snapshots :
               s.volume_id = v /\ DELETE_TAG \in DOMAIN tags_dict(s.tags)})

\* line 31: str(instance_tags.get(SNAPSHOT_TAG)).lower()
InstanceMakeSnapshot(tags) == Lower(Get(tags, SNAPSHOT_TAG, StrNone))

VolumeMakeSnapshotNoDefault(tags) == Lower(Get(tags, SNAPSHOT_TAG, StrNone))

\* line 41: str(volume_tags.get(SNAPSHOT_TAG, True)).lower()
VolumeMakeSnapshot(tags) == Lower(Get(tags, SNAPSHOT_TAG, StrTrue))

RetentionOfDefault(tags, default) == [ok |-> TRUE, val |-> default]

\* int(tags.get(RETENTION_TAG, default))
RetentionOf(tags, default) ==
    IF RETENTION_TAG \in DOMAIN tags THEN ParseInt(tags[RETENTION_TAG])
    ELSE [ok |-> TRUE, val |-> default]

\* str(snapshot_tags.get(DELETE_TAG)).lower() != 'true'
NotAutoDelete(s) ==
    Lower(Get(tags_dict(s.tags), DELETE_TAG, StrNone)) # <<"t","r","u","e">>

IsExpiredAtRetention(s, days) == (now - s.start_time) >= days * TicksPerDay
IsExpiredInverted(s, days) == (now - s.start_time) < days * TicksPerDay

\* (datetime.datetime.now(tz) - snapshot.start_time) > timedelta(days = days)
IsExpired(s, days) == (now - s.start_time) > days * TicksPerDay

\* new_snapshot.create_tags(Tags = tags): a key that exists is overwritten
CreateTagsOn(s, tags) ==
    [s EXCEPT !.tags =
        SelectSeq(@, LAMBDA t : \A i \in 1..Len(tags) : tags[i].Key # t.Key) \o tags]

RaiseCaught(p) ==
    /\ pc' = [pc EXCEPT ![p] = "done"]
    /\ ret' = [ret EXCEPT ![p] = "True"]
RaiseIgnored(p) == UNCHANGED <<pc, ret>>

\* an uncaught exception ends the invocation: nothing is returned
Raise(p) ==
    /\ pc' = [pc EXCEPT ![p] = "aborted"]
    /\ ret' = ret

\* the scheduler triggers lambda_handler
Start(p) ==
    /\ pending[p] > 0
    /\ pc[p] \in {"idle", "done", "aborted"}
    /\ pending' = [pending EXCEPT ![p] = @ - 1]
    /\ pc' = [pc EXCEPT ![p] = "list_instances"]
    /\ instances' = [instances EXCEPT ![p] = <<>>]
    /\ instance_name' = [instance_name EXCEPT ![p] = <<>>]
    /\ retention_days' = [retention_days EXCEPT ![p] = 0]
    /\ volumes' = [volumes EXCEPT ![p] = <<>>]
    /\ volume' = [volume EXCEPT ![p] = <<>>]
    /\ new_snapshot' = [new_snapshot EXCEPT ![p] = 0]
    /\ volume_retention_days' = [volume_retention_days EXCEPT ![p] = 0]
    /\ snapshots' = [snapshots EXCEPT ![p] = <<>>]
    /\ cursor' = [cursor EXCEPT ![p] = 1]
    /\ ret' = [ret EXCEPT ![p] = "None"]
    /\ runs' = runs + 1
    /\ run_no' = [run_no EXCEPT ![p] = runs + 1]
    /\ run_start' = [run_start EXCEPT ![p] = now]
    /\ at_start' = [at_start EXCEPT ![p] = ec2_snapshots]
    /\ UNCHANGED <<account, ec2_snapshots, next_id, clock, made, examined,
                   missing, faulted>>

\* lines 25-29: the instances to walk
ListInstances(p) ==
    /\ pc[p] = "list_instances"
    /\ instances' = [instances EXCEPT ![p] = FilterInstances]
    /\ pc' = [pc EXCEPT ![p] = "instances"]
    /\ UNCHANGED <<account, ec2_snapshots, next_id, clock, pending,
                   instance_name, retention_days, volumes, volume, new_snapshot,
                   volume_retention_days, snapshots, cursor, ret, history>>

\* lines 29-39: the next instance, skipped or entered
NextInstance(p) ==
    /\ pc[p] = "instances"
    /\ instances[p] # <<>>
    /\ LET i == Head(instances[p])
           tags == tags_dict(instance_tags[i])
           make_snapshot == InstanceMakeSnapshot(tags)
           days == RetentionOf(tags, RETENTION_DAYS_DEFAULT)
       IN IF OptedOut(make_snapshot)
          THEN /\ instances' = [instances EXCEPT ![p] = Tail(@)]
               /\ UNCHANGED <<pc, ret, instance_name, retention_days, volumes, faulted>>
          ELSE IF ~days.ok
          THEN /\ Raise(p)
               /\ faulted' = faulted \cup {run_no[p]}
               /\ UNCHANGED <<instances, instance_name, retention_days, volumes>>
          ELSE /\ instances' = [instances EXCEPT ![p] = Tail(@)]
               /\ instance_name' = [instance_name EXCEPT ![p] = Get(tags, NAME_TAG, i)]
               /\ retention_days' = [retention_days EXCEPT ![p] = days.val]
               /\ volumes' = [volumes EXCEPT ![p] = AttachedVolumes(i)]
               /\ pc' = [pc EXCEPT ![p] = "volumes"]
               /\ UNCHANGED <<ret, faulted>>
    /\ UNCHANGED <<account, ec2_snapshots, next_id, clock, pending, volume,
                   new_snapshot, volume_retention_days, snapshots, cursor,
                   runs, run_no, run_start, at_start, made, examined, missing>>

\* lines 77-78: every instance is done
Return(p) ==
    /\ pc[p] = "instances"
    /\ instances[p] = <<>>
    /\ pc' = [pc EXCEPT ![p] = "done"]
    /\ ret' = [ret EXCEPT ![p] = "True"]
    /\ UNCHANGED <<account, ec2_snapshots, next_id, clock, pending, instances,
                   instance_name, retention_days, volumes, volume, new_snapshot,
                   volume_retention_days, snapshots, cursor, history>>

\* lines 39-49: the next volume, skipped or snapshotted
NextVolume(p) ==
    /\ pc[p] = "volumes"
    /\ IF volumes[p] = <<>>
       THEN /\ pc' = [pc EXCEPT ![p] = "instances"]
            /\ UNCHANGED <<volumes, volume, new_snapshot, ec2_snapshots, next_id, made>>
       ELSE LET v == Head(volumes[p])
                tags == tags_dict(volume_tags[v])
                make_snapshot == VolumeMakeSnapshot(tags)
                snapshot_date == SnapshotDate(now, microsecond)
                description == Description(instance_name[p], v, snapshot_date)
            IN /\ volumes' = [volumes EXCEPT ![p] = Tail(@)]
               /\ IF OptedOut(make_snapshot)
                  THEN UNCHANGED <<pc, volume, new_snapshot, ec2_snapshots, next_id, made>>
                  ELSE /\ volume' = [volume EXCEPT ![p] = v]
                       /\ ec2_snapshots' = ec2_snapshots \cup
                              {Snapshot(next_id, v, now, <<>>, description)}
                       /\ next_id' = next_id + 1
                       /\ new_snapshot' = [new_snapshot EXCEPT ![p] = next_id]
                       /\ made' = made \cup
                              {[id |-> next_id, volume_id |-> v, run |-> run_no[p]]}
                       /\ pc' = [pc EXCEPT ![p] = "create_tags"]
    /\ UNCHANGED <<account, clock, pending, instances, instance_name,
                   retention_days, volume_retention_days, snapshots, cursor, ret,
                   runs, run_no, run_start, at_start, examined, missing, faulted>>

\* line 50: the new snapshot is tagged for deletion
CreateTags(p) ==
    /\ pc[p] = "create_tags"
    /\ ec2_snapshots' =
          {IF s.id = new_snapshot[p]
           THEN CreateTagsOn(s, <<Tag(DELETE_TAG, <<"t","r","u","e">>)>>)
           ELSE s : s \in ec2_snapshots}
    /\ pc' = [pc EXCEPT ![p] = "list_snapshots"]
    /\ UNCHANGED <<account, next_id, clock, pending, locals, history>>

\* lines 52-60: the volume's retention and its tagged snapshots
ListSnapshots(p) ==
    /\ pc[p] = "list_snapshots"
    /\ LET days == RetentionOf(tags_dict(volume_tags[volume[p]]), retention_days[p])
           found == FilterSnapshots(volume[p])
       IN IF ~days.ok
          THEN /\ Raise(p)
               /\ faulted' = faulted \cup {run_no[p]}
               /\ UNCHANGED <<volume_retention_days, snapshots, cursor>>
          ELSE /\ volume_retention_days' = [volume_retention_days EXCEPT ![p] = days.val]
               /\ snapshots' = [snapshots EXCEPT ![p] = found]
               /\ cursor' = [cursor EXCEPT ![p] = 1]
               /\ pc' = [pc EXCEPT ![p] =
                            IF Len(found) <= MIN_RETENTION_COUNT THEN "volumes" ELSE "purge"]
               /\ UNCHANGED <<ret, faulted>>
    /\ UNCHANGED <<account, ec2_snapshots, next_id, clock, pending, instances,
                   instance_name, retention_days, volumes, volume, new_snapshot,
                   runs, run_no, run_start, at_start, made, examined, missing>>

\* what the purge loop saw of a snapshot and what it did with it
Examined(p, s, removed) ==
    [id |-> s.id, volume_id |-> s.volume_id, run |-> run_no[p],
     tags |-> s.tags, at |-> now, age |-> now - s.start_time,
     days |-> volume_retention_days[p], count |-> Len(snapshots[p]),
     removed |-> removed]

\* lines 61-76: the next listed snapshot, skipped or deleted
PurgeSnapshot(p) ==
    /\ pc[p] = "purge"
    /\ cursor[p] <= Len(snapshots[p])
    /\ LET s == snapshots[p][cursor[p]]
           after == IF cursor[p] = Len(snapshots[p]) THEN "volumes" ELSE "purge"
       IN IF NotAutoDelete(s) \/ ~IsExpired(s, volume_retention_days[p])
          THEN /\ cursor' = [cursor EXCEPT ![p] = @ + 1]
               /\ pc' = [pc EXCEPT ![p] = after]
               /\ examined' = examined \cup {Examined(p, s, FALSE)}
               /\ UNCHANGED <<ec2_snapshots, ret, missing, faulted>>
          ELSE IF \E e \in ec2_snapshots : e.id = s.id
          THEN /\ ec2_snapshots' = {e \in ec2_snapshots : e.id # s.id}
               /\ cursor' = [cursor EXCEPT ![p] = @ + 1]
               /\ pc' = [pc EXCEPT ![p] = after]
               /\ examined' = examined \cup {Examined(p, s, TRUE)}
               /\ UNCHANGED <<ret, missing, faulted>>
          ELSE /\ Raise(p)
               /\ missing' = missing \cup {[id |-> s.id, run |-> run_no[p]]}
               /\ faulted' = faulted \cup {run_no[p]}
               /\ UNCHANGED <<ec2_snapshots, cursor, examined>>
    /\ UNCHANGED <<account, next_id, clock, pending, instances, instance_name,
                   retention_days, volumes, volume, new_snapshot,
                   volume_retention_days, snapshots,
                   runs, run_no, run_start, at_start, made>>

\* the next statement of the invocation calls the cloud provider
ApiCallNext(p) ==
    \/ pc[p] \in {"list_instances", "create_tags", "list_snapshots"}
    \/ /\ pc[p] = "instances"
       /\ instances[p] # <<>>
       /\ LET tags == tags_dict(instance_tags[Head(instances[p])])
          IN /\ ~OptedOut(InstanceMakeSnapshot(tags))
             /\ RetentionOf(tags, RETENTION_DAYS_DEFAULT).ok
    \/ /\ pc[p] = "volumes"
       /\ volumes[p] # <<>>
       /\ ~OptedOut(VolumeMakeSnapshot(tags_dict(volume_tags[Head(volumes[p])])))
    \/ /\ pc[p] = "purge"
       /\ LET s == snapshots[p][cursor[p]]
          IN ~NotAutoDelete(s) /\ IsExpired(s, volume_retention_days[p])

\* the call fails: the error is not caught
Fault(p) ==
    /\ ApiCallNext(p)
    /\ Raise(p)
    /\ faulted' = faulted \cup {run_no[p]}
    /\ UNCHANGED <<account, ec2_snapshots, next_id, clock, pending, instances,
                   instance_name, retention_days, volumes, volume, new_snapshot,
                   volume_retention_days, snapshots, cursor,
                   runs, run_no, run_start, at_start, made, examined, missing>>

\* the next statement of the invocation reads the clock (utcnow() for the
\* description and the start time of the new snapshot, now(tz) for an age), or
\* the invocation has ended and the scheduler waits to trigger the next
ClockReadNext(p) ==
    \/ pc[p] \in {"done", "aborted"} /\ pending[p] > 0
    \/ pc[p] = "volumes" /\ volumes[p] # <<>>
    \/ pc[p] = "purge"

\* time passes; it is observed only where an invocation reads the clock
Tick ==
    /\ now < MaxNow
    /\ \E p \in Procs : ClockReadNext(p)
    /\ now' = now + 1
    /\ microsecond' \in Microseconds
    /\ UNCHANGED <<account, ec2_snapshots, next_id, pending, pc, locals, history>>

\* the next statement of a running invocation
Step(p) ==
    \/ ListInstances(p)
    \/ NextInstance(p)
    \/ Return(p)
    \/ NextVolume(p)
    \/ CreateTags(p)
    \/ ListSnapshots(p)
    \/ PurgeSnapshot(p)

Next ==
    \/ \E p \in Procs : Start(p) \/ Step(p) \/ Fault(p)
    \/ Tick

Spec == Init /\ [][Next]_vars
RerunSpec == RerunInit /\ [][Next]_vars
OverlapSpec == OverlapInit /\ [][Next]_vars

\* ------------------------------------------------------------- the claims
\* The claims speak of tags, spellings and retention in their own terms; these
\* are stated here without lower(), int() and tags_dict.
HasTag(tags, key) == \E i \in 1..Len(tags) : tags[i].Key = key
TagValue(tags, key) == tags[CHOOSE i \in 1..Len(tags) : tags[i].Key = key].Value
Spelled(s, letters) ==
    Len(s) = Len(letters) /\ \A i \in 1..Len(s) : s[i] \in letters[i]
SpelledTrue(s) == Spelled(s, <<{"t","T"}, {"r","R"}, {"u","U"}, {"e","E"}>>)
SpelledOptOut(s) ==
    \/ Spelled(s, <<{"f","F"}, {"a","A"}, {"l","L"}, {"s","S"}, {"e","E"}>>)
    \/ Spelled(s, <<{"0"}>>)
    \/ Spelled(s, <<{"n","N"}, {"o","O"}, {"n","N"}, {"e","E"}>>)
AutoDeleteTrue(tags) == HasTag(tags, DELETE_TAG) /\ SpelledTrue(TagValue(tags, DELETE_TAG))
DaysWritten == (<<"0">> :> 0) @@ (<<"1">> :> 1) @@ (<<"3">> :> 3)
InstanceOf(v) == IF v \in {V1, V2} THEN I1 ELSE I2
ExpectedRetention(v) ==
    IF HasTag(volume_tags[v], RETENTION_TAG)
    THEN DaysWritten[TagValue(volume_tags[v], RETENTION_TAG)]
    ELSE IF HasTag(instance_tags[InstanceOf(v)], RETENTION_TAG)
    THEN DaysWritten[TagValue(instance_tags[InstanceOf(v)], RETENTION_TAG)]
    ELSE 2
RetentionReadable(tags) ==
    HasTag(tags, RETENTION_TAG) => TagValue(tags, RETENTION_TAG) \in DOMAIN DaysWritten
Selected(i) ==
    /\ HasTag(instance_tags[i], SNAPSHOT_TAG)
    /\ instance_state[i] = "running"
InstanceIn(i) ==
    Selected(i) /\ ~SpelledOptOut(TagValue(instance_tags[i], SNAPSHOT_TAG))
VolumeIn(v) ==
    HasTag(volume_tags[v], SNAPSHOT_TAG)
        => ~SpelledOptOut(TagValue(volume_tags[v], SNAPSHOT_TAG))
Processed(v) == InstanceIn(InstanceOf(v)) /\ VolumeIn(v)
Ids(S) == {s.id : s \in S}
TaggedOf(S, v) == {s \in S : s.volume_id = v /\ HasTag(s.tags, DELETE_TAG)}
MadeBy(r, v) == {m \in made : m.run = r /\ m.volume_id = v}
Running(p) == pc[p] \notin {"idle", "done", "aborted"}

\* C1: in the purge of a volume a snapshot is deleted exactly when its
\* AutoDelete value spells "true" in any case, its age is strictly greater than
\* the volume's retention period, and the purge query returned more than one
\* snapshot carrying the AutoDelete key; the query returns all of the volume's
\* snapshots that carry the key.
C1_StepOn(p, s) ==
    /\ pc[p] = "purge"
    /\ snapshots[p][cursor[p]].id = s.id
    /\ cursor'[p] = cursor[p] + 1
C1_DeletedIff ==
    [][ /\ \A s \in ec2_snapshots :
              (s.id \notin Ids(ec2_snapshots'))
              <=> \E p \in Procs :
                     /\ C1_StepOn(p, s)
                     /\ AutoDeleteTrue(s.tags)
                     /\ now - s.start_time > ExpectedRetention(s.volume_id) * TicksPerDay
                     /\ Len(snapshots[p]) > 1
        /\ \A p \in Procs :
              pc[p] = "list_snapshots" /\ pc'[p] \in {"volumes", "purge"}
              => /\ Len(snapshots'[p]) = Cardinality(TaggedOf(ec2_snapshots, volume[p]))
                 /\ pc'[p] = "purge" <=> Len(snapshots'[p]) > 1 ]_vars
C1_Witness ==
    /\ \E e \in examined : e.removed /\ e.age = e.days * TicksPerDay + 1
    /\ \E e \in examined :
          ~e.removed /\ AutoDeleteTrue(e.tags) /\ e.age = e.days * TicksPerDay

\* C2 as claimed: a snapshot that was the volume's only snapshot carrying the
\* AutoDelete tag when the invocation started is not deleted by it.
OnlyPrior(e) ==
    \E p \in Procs :
        /\ run_no[p] = e.run
        /\ Ids(TaggedOf(at_start[p], e.volume_id)) = {e.id}
        /\ AutoDeleteTrue(e.tags)
C2_OnlyPriorKept == \A e \in examined : OnlyPrior(e) => ~e.removed
\* C2 as amended: the purge query returns the only prior tagged snapshot
\* together with the snapshot just created, a count of 2, above the floor; the
\* prior snapshot is deleted exactly when its age exceeds the retention period,
\* and an invocation that completes has examined it.
C2_OnlyPriorPurged ==
    /\ \A e \in examined :
          OnlyPrior(e) => e.count = 2 /\ (e.removed <=> e.age > e.days * TicksPerDay)
    /\ \A p \in Procs : \A s \in at_start[p] :
          /\ pc[p] = "done"
          /\ Ids(TaggedOf(at_start[p], s.volume_id)) = {s.id}
          /\ MadeBy(run_no[p], s.volume_id) # {}
          => \E e \in examined : e.id = s.id /\ e.run = run_no[p]
C2_Witness == \E e \in examined : OnlyPrior(e) /\ e.removed /\ e.age > 2 * e.days * TicksPerDay

\* C3: no snapshot is created or deleted for a volume whose instance is not
\* selected or is opted out, or that is opted out itself; an invocation that
\* completes has snapshotted every other volume.
C3_OptOutFrame ==
    /\ \A v \in Volumes :
          ~Processed(v)
          => /\ \A m \in made : m.volume_id # v
             /\ \A e \in examined : e.volume_id # v
             /\ \A p \in Procs : \A s \in at_start[p] :
                   s.volume_id = v /\ run_no[p] > 0 => s \in ec2_snapshots
             /\ \A s \in ec2_snapshots : s.volume_id = v => s.id <= Len(PriorPool)
    /\ \A p \in Procs : \A v \in Volumes :
          pc[p] = "done" /\ Processed(v) => MadeBy(run_no[p], v) # {}
C3_Witness ==
    /\ pc[1] = "done"
    /\ ~VolumeIn(V1) /\ InstanceIn(I1)
    /\ MadeBy(run_no[1], V2) # {}
    /\ \E s \in ec2_snapshots : s.volume_id = V1 /\ AutoDeleteTrue(s.tags)
                                /\ now - s.start_time > 2 * TicksPerDay
    /\ Cardinality(TaggedOf(ec2_snapshots, V1)) = 2

\* C4: the retention period that decides expiry is the volume's Retention tag
\* if it has one, else its instance's if it has one, else 2 days.
C4_EffectiveRetention ==
    /\ \A p \in Procs :
          pc[p] = "purge" => volume_retention_days[p] = ExpectedRetention(volume[p])
    /\ \A e \in examined :
          /\ e.days = ExpectedRetention(e.volume_id)
          /\ e.removed => e.age > ExpectedRetention(e.volume_id) * TicksPerDay
C4_Witness ==
    \E e \in examined :
        /\ HasTag(volume_tags[e.volume_id], RETENTION_TAG)
        /\ HasTag(instance_tags[InstanceOf(e.volume_id)], RETENTION_TAG)
        /\ e.days # DaysWritten[TagValue(instance_tags[InstanceOf(e.volume_id)],
                                         RETENTION_TAG)]
        /\ e.days # RETENTION_DAYS_DEFAULT

\* C5 as claimed: once the create step of a volume is behind, every snapshot an
\* invocation created carries AutoDelete = "true".
C5_CreatedIsTagged ==
    \A s \in ec2_snapshots :
        (\E m \in made : m.id = s.id)
        /\ (\A p \in Procs : ~(pc[p] = "create_tags" /\ new_snapshot[p] = s.id))
        => AutoDeleteTrue(s.tags)

\* C6 as claimed: the description of a created snapshot is the instance's Name
\* (its id without one), a dot, the volume id, a dot and the time of creation in
\* whole seconds, which is not empty.
NameOrId(i) ==
    IF HasTag(instance_tags[i], NAME_TAG) THEN TagValue(instance_tags[i], NAME_TAG) ELSE i
C6_Description ==
    \A s \in ec2_snapshots :
        (\E m \in made : m.id = s.id)
        => s.description = NameOrId(InstanceOf(s.volume_id)) \o <<".">> \o s.volume_id
                           \o <<".">> \o IsoFormat(s.start_time, 0)

\* C7: a fault aborts the invocation where it stands: the step that faults
\* changes no snapshot, nothing is created, tagged or deleted afterwards, True
\* is not returned, and an invocation that returned True met no Retention value
\* that is not a number.
C7_Effects == <<ec2_snapshots, next_id, made, examined>>
C7_Aborts ==
    /\ [][\A p \in Procs :
             /\ pc'[p] = "aborted" /\ run_no'[p] = run_no[p] => UNCHANGED C7_Effects
             /\ pc[p] = "aborted" => pc'[p] = "aborted" /\ ret'[p] # "True"]_vars
    /\ [](\A p \in Procs :
             /\ run_no[p] \in faulted => pc[p] = "aborted" /\ ret[p] # "True"
             /\ ret[p] = "True"
                => /\ \A i \in {I1, I2} : InstanceIn(i) => RetentionReadable(instance_tags[i])
                   /\ \A v \in Volumes : Processed(v) => RetentionReadable(volume_tags[v]))
C7_Witness ==
    /\ pc[1] = "aborted"
    /\ \E e \in examined : e.removed
    /\ \E s \in ec2_snapshots : s.volume_id = V2 /\ s.tags = <<>>

\* C8: an invocation that meets no fault ends returning True, having created
\* exactly one snapshot for every volume that is not opted out of an instance
\* that is selected and not opted out; n invocations create n.  It ends because
\* it can always take its next statement and every statement lowers C8_Rank.
C8_Stage(p) ==
    CASE pc[p] = "list_instances" -> 1000
      [] pc[p] = "create_tags" -> 4
      [] pc[p] = "list_snapshots" -> 3
      [] pc[p] = "purge" -> 2
      [] pc[p] = "volumes" -> 1
      [] OTHER -> 0
C8_Rank(p) ==
    IF ~Running(p) THEN 0 - 1
    ELSE Len(instances[p]) * 10000 + Len(volumes[p]) * 1000 + C8_Stage(p) * 100
         + (IF pc[p] = "purge" THEN Len(snapshots[p]) + 1 - cursor[p] ELSE 0)
C8_Position(p) == <<pc[p], instances[p], volumes[p], cursor[p]>>
C8_OnePerRun ==
    /\ [](\A p \in Procs :
             /\ pc[p] = "done" => ret[p] = "True"
             /\ pc[p] = "aborted" => run_no[p] \in faulted
             /\ Running(p) => ENABLED Step(p)
             /\ pc[p] = "done" /\ faulted = {}
                => \A v \in Volumes :
                      /\ Processed(v)
                         => \A r \in 1..runs : Cardinality(MadeBy(r, v)) = 1
                      /\ Processed(v)
                         => Cardinality({m \in made : m.volume_id = v}) = runs)
    /\ [][\A p \in Procs :
             Running(p) /\ C8_Position(p)' # C8_Position(p) => C8_Rank(p)' < C8_Rank(p)]_vars
C8_Witness ==
    /\ pc[1] = "done"
    /\ faulted = {}
    /\ runs = MaxReruns
    /\ Cardinality({m \in made : m.volume_id = V1}) = MaxReruns
    /\ Cardinality({m \in made : m.volume_id = V3}) = MaxReruns
    /\ TaggedOf(at_start[1], V1) # {}
    /\ ~HasTag(volume_tags[V1], SNAPSHOT_TAG)

\* C9: when the purge of a volume runs, the invocation's new snapshot of the
\* volume has been created and tagged; with a retention of a day or more and
\* less than a day since the invocation started, that snapshot is not deleted,
\* and an invocation that completes leaves every volume it snapshotted with a
\* snapshot tagged AutoDelete = "true".
C9_NewSnapshotKept ==
    /\ \A p \in Procs :
          pc[p] = "purge"
          => /\ Ids(MadeBy(run_no[p], volume[p])) = {new_snapshot[p]}
             /\ \E i \in 1..Len(snapshots[p]) :
                   /\ snapshots[p][i].id = new_snapshot[p]
                   /\ AutoDeleteTrue(snapshots[p][i].tags)
    /\ \A e \in examined : \A p \in Procs :
          /\ run_no[p] = e.run
          /\ e.id \in Ids(MadeBy(e.run, e.volume_id))
          /\ e.days >= 1
          /\ e.at - run_start[p] < TicksPerDay
          => ~e.removed
    /\ \A p \in Procs : \A v \in Volumes :
          /\ pc[p] = "done"
          /\ now - run_start[p] < TicksPerDay
          /\ MadeBy(run_no[p], v) # {}
          /\ ExpectedRetention(v) >= 1
          => \E s \in ec2_snapshots : s.volume_id = v /\ AutoDeleteTrue(s.tags)
C9_Witness ==
    /\ pc[1] = "done"
    /\ now - run_start[1] < TicksPerDay
    /\ \E e \in examined : e.removed
    /\ \E e \in examined :
          e.id \in Ids(MadeBy(e.run, e.volume_id)) /\ e.age > 0 /\ e.days = 1

\* C10 as claimed: no delete call targets a snapshot that is already gone.
C10_DeleteFindsSnapshot == missing = {}
\* C10 as amended: two overlapping invocations can list the same expired
\* snapshot; it is removed once, by the invocation that deletes first, and the
\* delete call of the other then faults and aborts it without returning True.
C10_SecondDeleteAborts ==
    /\ \A m \in missing :
          /\ \E e \in examined : e.id = m.id /\ e.removed /\ e.run # m.run
          /\ \A p \in Procs : run_no[p] = m.run => pc[p] = "aborted" /\ ret[p] # "True"
    /\ \A e \in examined : \A f \in examined :
          e.removed /\ f.removed /\ e.id = f.id => e.run = f.run
C10_Witness == \E m \in missing : \E p \in Procs : run_no[p] # m.run /\ pc[p] = "done"

====
